---- MODULE Spec2Model ----
(***************************************************************************)
(* Session-scoped gamification of the ML learning dashboard:               *)
(* GamificationAgent (XP, levels, badges), QuizAgent (one reward per quiz  *)
(* key), OrchestratorAgent.initialize_session and the script run of the    *)
(* Regression page.  The session dictionary st.session_state is a function *)
(* from the keys that are present to their values.                         *)
(***************************************************************************)
EXTENDS Integers, Sequences, FiniteSets, TLC

\* ---------------------------------------------------------------- bounds
\* xp is kept within -MaxDebt .. MaxXP
MaxXP == 110
MaxDebt == 5
\* xp limit of the specification with awards that cross several levels
MaxLevelXP == 310

\* ------------------------------------------------------ program constants
XP_PER_LEVEL == 100
DEFAULT_XP == 0
DEFAULT_LEVEL == 1
DEFAULT_XP_REWARD == 25
PAGE_XP_REWARD == 50

\* ----------------------------------------------------------------- inputs
PositiveAmounts == {5, 15, 50}
NonPositiveAmounts == {-5, 0}
Amounts == PositiveAmounts \cup NonPositiveAmounts
\* amounts of the specification with awards that cross several levels
JumpAmounts == {-5, 5, 50, 200}
BadgeNames == {"Regression Master", ""}
DEFAULT_REASON == "Task Complete"
QUIZ_REASON == "Quiz Correct!"

\* The quiz of the Regression page (key q1, reward 50) and a second
\* question rendered by a QuizAgent built with the default reward.
Quizzes ==
  [q1 |-> [options |-> << "The length of the rope",
                          "The tension in the springs",
                          "The number of magnets",
                          "The color of the rod" >>,
           correct_idx |-> 1,
           xp_reward |-> PAGE_XP_REWARD],
   q2 |-> [options |-> << "Yes", "No" >>,
           correct_idx |-> 0,
           xp_reward |-> DEFAULT_XP_REWARD]]
QuizKeys == DOMAIN Quizzes

\* Questions whose correct_idx is no position of the options list: one past
\* the end, and -1
EdgeQuizzes ==
  [q3 |-> [options |-> << "Yes", "No" >>,
           correct_idx |-> 2,
           xp_reward |-> DEFAULT_XP_REWARD],
   q4 |-> [options |-> << "Yes", "No" >>,
           correct_idx |-> -1,
           xp_reward |-> DEFAULT_XP_REWARD]]
EdgeKeys == DOMAIN EdgeQuizzes

\* A question whose correct option text also occurs earlier in its options
DUPLICATE_KEY == "q5"
DuplicateQuiz ==
  [options |-> << "Maybe", "No", "Maybe" >>, correct_idx |-> 2,
   xp_reward |-> DEFAULT_XP_REWARD]

\* A second question rendered under the key of q2
SHARED_KEY == "q2"
SharedQuiz ==
  [options |-> << "Up", "Down" >>, correct_idx |-> 1,
   xp_reward |-> PAGE_XP_REWARD]
PAGE_QUIZ == "q1"
PAGE_BADGE == "Regression Master"

\* ------------------------------------------------------------------ state
VARIABLES
  session_state,   \* st.session_state: present keys |-> values, for the
                   \* keys the agents and the page script name; the
                   \* entries Streamlit keeps for keyed widgets are left out
  toasts,          \* notifications emitted by the last handler, in order
  balloons,        \* number of st.balloons() calls of the last handler
  raised,          \* exception raised by the last handler, "none" if none
  returned,        \* value returned by the last handler, << >> for None
  rerun,           \* the last handler called st.rerun()
  display,         \* sidebar drawn by the last handler, << >> if none
  quiz_view,       \* what QuizAgent.render drew in the last handler:
                   \* "success" (answered form), "question" (radio and
                   \* button), "error" (these and the try-again message)
  call,            \* the last handler and its arguments
  quiz_awards,     \* per quiz key: award_xp calls made by QuizAgent.render
  badge_unlocked,  \* per badge name: badge-unlocked notifications emitted
  peer_state,      \* st.session_state of a second browser session
  sleeping,        \* the script thread is in time.sleep(1) of award_badge
  peer_sleeping    \* the same for the script thread of the second session

vars == << session_state, toasts, balloons, raised, returned, rerun, display,
           quiz_view, call, quiz_awards, badge_unlocked, peer_state,
           sleeping, peer_sleeping >>

\* ------------------------------------------------- the session dictionary
Has(ss, k) == k \in DOMAIN ss
Get(ss, k, default) == IF k \in DOMAIN ss THEN ss[k] ELSE default
Put(ss, k, v) == [x \in (DOMAIN ss) \cup {k} |-> IF x = k THEN v ELSE ss[x]]

Range(s) == { s[i] : i \in 1..Len(s) }

\* f"quiz_{key}_answered"
\* the session key of the answered flag without the question key in it
quiz_key_one_flag(key) == "quiz_answered"

quiz_key(key) == "quiz_" \o key \o "_answered"

\* zero-based position of the last occurrence
index_last(options, choice) ==
  (CHOOSE i \in 1..Len(options) :
      /\ options[i] = choice
      /\ \A j \in (i + 1)..Len(options) : options[j] # choice) - 1

\* list.index(x): zero-based position of the first occurrence
index(options, choice) ==
  (CHOOSE i \in 1..Len(options) :
      /\ options[i] = choice
      /\ \A j \in 1..(i - 1) : options[j] # choice) - 1

\* 1 + (xp // 100)
level_of(xp) == 1 + (xp \div XP_PER_LEVEL)

\* ---------------------------------------------------------------- toasts
LevelUpToast(new_level) ==
  [kind |-> "level_up", level |-> new_level, amount |-> 0, text |-> ""]
XpToast(amount, reason) ==
  [kind |-> "xp", level |-> 0, amount |-> amount, text |-> reason]
BadgeToast(badge_name) ==
  [kind |-> "badge", level |-> 0, amount |-> 0, text |-> badge_name]

\* -------------------------------------------------------------- handlers
\* A handler is a function on the world w: the session dictionary, the
\* outputs of the running script and the two tallies.
World ==
  [ss |-> session_state, toasts |-> << >>, balloons |-> 0, raised |-> "none",
   returned |-> << >>, rerun |-> FALSE, display |-> << >>,
   quiz_view |-> "none",
   quiz_awards |-> quiz_awards, badge_unlocked |-> badge_unlocked,
   peer |-> peer_state, sleeping |-> FALSE]

\* initialize_session without the test that keeps a present badges list
initialize_session_resets_badges(w) ==
  LET s1 == IF Has(w.ss, "user_xp") THEN w.ss ELSE Put(w.ss, "user_xp", 0)
      s2 == IF Has(s1, "user_level") THEN s1 ELSE Put(s1, "user_level", 1)
  IN  [w EXCEPT !.ss = Put(s2, "badges", << >>)]

\* initialize_session starting the level of the tracker at 0
initialize_session_level_zero(w) ==
  LET s1 == IF Has(w.ss, "user_xp") THEN w.ss ELSE Put(w.ss, "user_xp", 0)
      s2 == IF Has(s1, "level") THEN s1 ELSE Put(s1, "level", 0)
      s3 == IF Has(s2, "badges") THEN s2 ELSE Put(s2, "badges", << >>)
  IN  [w EXCEPT !.ss = s3]

\* OrchestratorAgent.initialize_session
initialize_session(w) ==
  LET s1 == IF Has(w.ss, "user_xp") THEN w.ss ELSE Put(w.ss, "user_xp", 0)
      s2 == IF Has(s1, "user_level") THEN s1 ELSE Put(s1, "user_level", 1)
      s3 == IF Has(s2, "badges") THEN s2 ELSE Put(s2, "badges", << >>)
  IN  [w EXCEPT !.ss = s3]

\* GamificationAgent.render reading with setdefault, which creates the keys
render_sidebar_setdefault(w) ==
  LET s1 == IF Has(w.ss, "xp") THEN w.ss ELSE Put(w.ss, "xp", DEFAULT_XP)
      s2 == IF Has(s1, "level") THEN s1 ELSE Put(s1, "level", DEFAULT_LEVEL)
      badges == Get(s2, "badges", << >>)
  IN  [w EXCEPT !.ss = s2,
                !.display =
         << [level |-> s2["level"],
             progress_num |-> s2["xp"] % XP_PER_LEVEL,
             progress_den |-> XP_PER_LEVEL,
             caption_xp |-> s2["xp"],
             caption_max |-> s2["level"] * XP_PER_LEVEL,
             badges |-> badges] >>]

\* GamificationAgent.render drawing progress kept on the agent instance,
\* which every page run constructs anew
render_sidebar_own_progress(w) ==
  [w EXCEPT !.display =
     << [level |-> DEFAULT_LEVEL,
         progress_num |-> DEFAULT_XP % XP_PER_LEVEL,
         progress_den |-> XP_PER_LEVEL,
         caption_xp |-> DEFAULT_XP,
         caption_max |-> DEFAULT_LEVEL * XP_PER_LEVEL,
         badges |-> << >>] >>]

\* GamificationAgent.render
render_sidebar(w) ==
  LET xp == Get(w.ss, "xp", DEFAULT_XP)
      level == Get(w.ss, "level", DEFAULT_LEVEL)
      badges == Get(w.ss, "badges", << >>)
  IN  [w EXCEPT !.display =
         << [level |-> level,
             progress_num |-> xp % XP_PER_LEVEL,
             progress_den |-> XP_PER_LEVEL,
             caption_xp |-> xp,
             caption_max |-> level * XP_PER_LEVEL,
             badges |-> badges] >>]

\* award_xp deciding the level from the XP before the award
award_xp_stale_level(w, amount, reason) ==
  LET s1 == IF Has(w.ss, "xp") THEN w.ss ELSE Put(w.ss, "xp", 0)
      old_level == Get(s1, "level", DEFAULT_LEVEL)
      s2 == Put(s1, "xp", s1["xp"] + amount)
      new_level == level_of(s1["xp"])
  IN  IF new_level > old_level
      THEN [w EXCEPT !.ss = Put(s2, "level", new_level),
                     !.toasts = Append(w.toasts, LevelUpToast(new_level)),
                     !.balloons = w.balloons + 1]
      ELSE [w EXCEPT !.ss = s2,
                     !.toasts = Append(w.toasts, XpToast(amount, reason))]

\* award_xp emitting the XP toast after the if, not in its else branch
award_xp_toast_after_if(w, amount, reason) ==
  LET s1 == IF Has(w.ss, "xp") THEN w.ss ELSE Put(w.ss, "xp", 0)
      old_level == Get(s1, "level", DEFAULT_LEVEL)
      s2 == Put(s1, "xp", s1["xp"] + amount)
      new_level == level_of(s2["xp"])
  IN  IF new_level > old_level
      THEN [w EXCEPT !.ss = Put(s2, "level", new_level),
                     !.toasts = w.toasts \o << LevelUpToast(new_level),
                                               XpToast(amount, reason) >>,
                     !.balloons = w.balloons + 1]
      ELSE [w EXCEPT !.ss = s2,
                     !.toasts = Append(w.toasts, XpToast(amount, reason))]

\* award_xp announcing a level-up without storing the new level
award_xp_level_not_stored(w, amount, reason) ==
  LET s1 == IF Has(w.ss, "xp") THEN w.ss ELSE Put(w.ss, "xp", 0)
      old_level == Get(s1, "level", DEFAULT_LEVEL)
      s2 == Put(s1, "xp", s1["xp"] + amount)
      new_level == level_of(s2["xp"])
  IN  IF new_level > old_level
      THEN [w EXCEPT !.ss = s2,
                     !.toasts = Append(w.toasts, LevelUpToast(new_level)),
                     !.balloons = w.balloons + 1]
      ELSE [w EXCEPT !.ss = s2,
                     !.toasts = Append(w.toasts, XpToast(amount, reason))]

\* award_xp comparing the levels with >= instead of >
award_xp_ge(w, amount, reason) ==
  LET s1 == IF Has(w.ss, "xp") THEN w.ss ELSE Put(w.ss, "xp", 0)
      old_level == Get(s1, "level", DEFAULT_LEVEL)
      s2 == Put(s1, "xp", s1["xp"] + amount)
      new_level == level_of(s2["xp"])
  IN  IF new_level >= old_level
      THEN [w EXCEPT !.ss = Put(s2, "level", new_level),
                     !.toasts = Append(w.toasts, LevelUpToast(new_level)),
                     !.balloons = w.balloons + 1]
      ELSE [w EXCEPT !.ss = s2,
                     !.toasts = Append(w.toasts, XpToast(amount, reason))]

\* award_xp writing the level whenever the recomputed level differs
award_xp_ne(w, amount, reason) ==
  LET s1 == IF Has(w.ss, "xp") THEN w.ss ELSE Put(w.ss, "xp", 0)
      old_level == Get(s1, "level", DEFAULT_LEVEL)
      s2 == Put(s1, "xp", s1["xp"] + amount)
      new_level == level_of(s2["xp"])
  IN  IF new_level # old_level
      THEN [w EXCEPT !.ss = Put(s2, "level", new_level),
                     !.toasts = Append(w.toasts, LevelUpToast(new_level)),
                     !.balloons = w.balloons + 1]
      ELSE [w EXCEPT !.ss = s2,
                     !.toasts = Append(w.toasts, XpToast(amount, reason))]

\* award_xp keeping the progress under the keys initialize_session creates
award_xp_user_keys(w, amount, reason) ==
  LET s1 == IF Has(w.ss, "user_xp") THEN w.ss ELSE Put(w.ss, "user_xp", 0)
      old_level == Get(s1, "user_level", DEFAULT_LEVEL)
      s2 == Put(s1, "user_xp", s1["user_xp"] + amount)
      new_level == level_of(s2["user_xp"])
  IN  IF new_level > old_level
      THEN [w EXCEPT !.ss = Put(s2, "user_level", new_level),
                     !.toasts = Append(w.toasts, LevelUpToast(new_level)),
                     !.balloons = w.balloons + 1]
      ELSE [w EXCEPT !.ss = s2,
                     !.toasts = Append(w.toasts, XpToast(amount, reason))]

\* GamificationAgent.award_xp
award_xp(w, amount, reason) ==
  LET s1 == IF Has(w.ss, "xp") THEN w.ss ELSE Put(w.ss, "xp", 0)
      old_level == Get(s1, "level", DEFAULT_LEVEL)
      s2 == Put(s1, "xp", s1["xp"] + amount)
      new_level == level_of(s2["xp"])
  IN  IF new_level > old_level
      THEN [w EXCEPT !.ss = Put(s2, "level", new_level),
                     !.toasts = Append(w.toasts, LevelUpToast(new_level)),
                     !.balloons = w.balloons + 1]
      ELSE [w EXCEPT !.ss = s2,
                     !.toasts = Append(w.toasts, XpToast(amount, reason))]

\* award_badge without the membership test
award_badge_always_appends(w, badge_name) ==
  LET s1 == IF Has(w.ss, "badges") THEN w.ss ELSE Put(w.ss, "badges", << >>)
  IN  [w EXCEPT !.ss = Put(s1, "badges", Append(s1["badges"], badge_name)),
                !.toasts = Append(w.toasts, BadgeToast(badge_name)),
                !.sleeping = TRUE,
                !.badge_unlocked[badge_name] = @ + 1]

\* award_badge with the notification outside the membership test
award_badge_always_toasts(w, badge_name) ==
  LET s1 == IF Has(w.ss, "badges") THEN w.ss ELSE Put(w.ss, "badges", << >>)
      w1 == [w EXCEPT !.toasts = Append(w.toasts, BadgeToast(badge_name)),
                      !.sleeping = TRUE,
                      !.badge_unlocked[badge_name] = @ + 1]
  IN  IF badge_name \notin Range(s1["badges"])
      THEN [w1 EXCEPT !.ss = Put(s1, "badges", Append(s1["badges"], badge_name))]
      ELSE [w1 EXCEPT !.ss = s1]

\* award_badge keeping the badges in one list that every session shares
award_badge_shared_list(w, badge_name) ==
  LET s1 == IF Has(w.ss, "badges") THEN w.ss ELSE Put(w.ss, "badges", << >>)
      p1 == IF Has(w.peer, "badges") THEN w.peer
                                     ELSE Put(w.peer, "badges", << >>)
      shared == Range(s1["badges"]) \cup Range(p1["badges"])
  IN  IF badge_name \notin shared
      THEN [w EXCEPT !.ss = Put(s1, "badges", Append(s1["badges"], badge_name)),
                     !.peer = Put(p1, "badges",
                                  Append(p1["badges"], badge_name)),
                     !.toasts = Append(w.toasts, BadgeToast(badge_name)),
                     !.sleeping = TRUE,
                     !.badge_unlocked[badge_name] = @ + 1]
      ELSE [w EXCEPT !.ss = s1]

\* award_badge that also resets the level when it unlocks a badge
award_badge_resets_level(w, badge_name) ==
  LET s1 == IF Has(w.ss, "badges") THEN w.ss ELSE Put(w.ss, "badges", << >>)
  IN  IF badge_name \notin Range(s1["badges"])
      THEN [w EXCEPT !.ss = Put(Put(s1, "badges",
                                    Append(s1["badges"], badge_name)),
                                "level", DEFAULT_LEVEL),
                     !.toasts = Append(w.toasts, BadgeToast(badge_name)),
                     !.sleeping = TRUE,
                     !.badge_unlocked[badge_name] = @ + 1]
      ELSE [w EXCEPT !.ss = s1]

\* award_badge putting a new badge at the front of the list
award_badge_prepends(w, badge_name) ==
  LET s1 == IF Has(w.ss, "badges") THEN w.ss ELSE Put(w.ss, "badges", << >>)
  IN  IF badge_name \notin Range(s1["badges"])
      THEN [w EXCEPT !.ss = Put(s1, "badges",
                                << badge_name >> \o s1["badges"]),
                     !.toasts = Append(w.toasts, BadgeToast(badge_name)),
                     !.sleeping = TRUE,
                     !.badge_unlocked[badge_name] = @ + 1]
      ELSE [w EXCEPT !.ss = s1]

\* GamificationAgent.award_badge up to its time.sleep(1): a new badge is
\* appended and announced and the script thread sleeps; st.balloons() comes
\* when it wakes (award_badge_wakes)
award_badge(w, badge_name) ==
  LET s1 == IF Has(w.ss, "badges") THEN w.ss ELSE Put(w.ss, "badges", << >>)
  IN  IF badge_name \notin Range(s1["badges"])
      THEN [w EXCEPT !.ss = Put(s1, "badges", Append(s1["badges"], badge_name)),
                     !.toasts = Append(w.toasts, BadgeToast(badge_name)),
                     !.sleeping = TRUE,
                     !.badge_unlocked[badge_name] = @ + 1]
      ELSE [w EXCEPT !.ss = s1]

\* GamificationAgent.award_badge after time.sleep(1): st.balloons()
award_badge_wakes(w) == [w EXCEPT !.balloons = @ + 1, !.sleeping = FALSE]

\* A widget event of the session during the sleep: Streamlit ends the script
\* run at its next command, st.balloons(), which then draws nothing
award_badge_stopped(w) == [w EXCEPT !.sleeping = FALSE]

\* QuizAgent.render without the early return of an answered question
quiz_render_no_guard(w, key, xp_reward, options, correct_idx, choice, pressed) ==
  LET qk == quiz_key(key)
      s1 == IF Has(w.ss, qk) THEN w.ss ELSE Put(w.ss, qk, FALSE)
      w1 == [w EXCEPT !.ss = s1]
  IN  IF pressed
      THEN IF index(options, choice) = correct_idx
           THEN LET w2 == [w1 EXCEPT !.ss = Put(s1, qk, TRUE),
                                     !.quiz_awards[key] = @ + 1]
                    w3 == award_xp(w2, xp_reward, QUIZ_REASON)
                IN  [w3 EXCEPT !.balloons = @ + 1, !.rerun = TRUE,
                               !.quiz_view = "question"]
           ELSE [w1 EXCEPT !.quiz_view = "error"]
      ELSE [w1 EXCEPT !.quiz_view = "question"]

\* QuizAgent.render awarding the default reward instead of self.xp_reward
quiz_render_default_reward(w, key, xp_reward, options, correct_idx, choice, pressed) ==
  LET qk == quiz_key(key)
      s1 == IF Has(w.ss, qk) THEN w.ss ELSE Put(w.ss, qk, FALSE)
      w1 == [w EXCEPT !.ss = s1]
  IN  IF s1[qk]
      THEN [w1 EXCEPT !.quiz_view = "success"]
      ELSE IF pressed
           THEN IF index(options, choice) = correct_idx
                THEN LET w2 == [w1 EXCEPT !.ss = Put(s1, qk, TRUE),
                                          !.quiz_awards[key] = @ + 1]
                         w3 == award_xp(w2, DEFAULT_XP_REWARD, QUIZ_REASON)
                     IN  [w3 EXCEPT !.balloons = @ + 1, !.rerun = TRUE,
                                    !.quiz_view = "question"]
                ELSE [w1 EXCEPT !.quiz_view = "error"]
           ELSE [w1 EXCEPT !.quiz_view = "question"]

\* QuizAgent.render setting the flag to False on every render
quiz_render_resets_flag(w, key, xp_reward, options, correct_idx, choice, pressed) ==
  LET qk == quiz_key(key)
      s1 == Put(w.ss, qk, FALSE)
      w1 == [w EXCEPT !.ss = s1]
  IN  IF pressed
      THEN IF index(options, choice) = correct_idx
           THEN LET w2 == [w1 EXCEPT !.ss = Put(s1, qk, TRUE),
                                     !.quiz_awards[key] = @ + 1]
                    w3 == award_xp(w2, xp_reward, QUIZ_REASON)
                IN  [w3 EXCEPT !.balloons = @ + 1, !.rerun = TRUE,
                               !.quiz_view = "question"]
           ELSE [w1 EXCEPT !.quiz_view = "error"]
      ELSE [w1 EXCEPT !.quiz_view = "question"]

\* QuizAgent.render accepting every submission as correct
quiz_render_any_submit(w, key, xp_reward, options, correct_idx, choice, pressed) ==
  LET qk == quiz_key(key)
      s1 == IF Has(w.ss, qk) THEN w.ss ELSE Put(w.ss, qk, FALSE)
      w1 == [w EXCEPT !.ss = s1]
  IN  IF s1[qk]
      THEN [w1 EXCEPT !.quiz_view = "success"]
      ELSE IF pressed
           THEN LET w2 == [w1 EXCEPT !.ss = Put(s1, qk, TRUE),
                                     !.quiz_awards[key] = @ + 1]
                    w3 == award_xp(w2, xp_reward, QUIZ_REASON)
                IN  [w3 EXCEPT !.balloons = @ + 1, !.rerun = TRUE,
                               !.quiz_view = "question"]
           ELSE [w1 EXCEPT !.quiz_view = "question"]

\* QuizAgent.render comparing choice with options[correct_idx], which raises
\* IndexError past the end and counts a negative index from the end
quiz_render_subscript(w, key, xp_reward, options, correct_idx, choice, pressed) ==
  LET qk == quiz_key(key)
      s1 == IF Has(w.ss, qk) THEN w.ss ELSE Put(w.ss, qk, FALSE)
      w1 == [w EXCEPT !.ss = s1]
      n  == Len(options)
      at == IF correct_idx < 0 THEN correct_idx + n + 1 ELSE correct_idx + 1
  IN  IF s1[qk]
      THEN [w1 EXCEPT !.quiz_view = "success"]
      ELSE IF pressed
           THEN IF at \notin 1..n
                THEN [w1 EXCEPT !.raised = "IndexError",
                                !.quiz_view = "question"]
                ELSE IF options[at] = choice
                THEN LET w2 == [w1 EXCEPT !.ss = Put(s1, qk, TRUE)]
                         w3 == award_xp(w2, xp_reward, QUIZ_REASON)
                     IN  [w3 EXCEPT !.balloons = @ + 1, !.rerun = TRUE,
                                    !.quiz_view = "question"]
                ELSE [w1 EXCEPT !.quiz_view = "error"]
           ELSE [w1 EXCEPT !.quiz_view = "question"]

\* QuizAgent.render calling st.rerun(), which ends the script run, before
\* award_xp
quiz_render_rerun_first(w, key, xp_reward, options, correct_idx, choice, pressed) ==
  LET qk == quiz_key(key)
      s1 == IF Has(w.ss, qk) THEN w.ss ELSE Put(w.ss, qk, FALSE)
      w1 == [w EXCEPT !.ss = s1]
  IN  IF s1[qk]
      THEN [w1 EXCEPT !.quiz_view = "success"]
      ELSE IF pressed
           THEN IF index(options, choice) = correct_idx
                THEN [w1 EXCEPT !.ss = Put(s1, qk, TRUE), !.rerun = TRUE,
                                !.quiz_view = "question"]
                ELSE [w1 EXCEPT !.quiz_view = "error"]
           ELSE [w1 EXCEPT !.quiz_view = "question"]

\* QuizAgent.render: choice is the radio selection, pressed the Submit button
quiz_render(w, key, xp_reward, options, correct_idx, choice, pressed) ==
  LET qk == quiz_key(key)
      s1 == IF Has(w.ss, qk) THEN w.ss ELSE Put(w.ss, qk, FALSE)
      w1 == [w EXCEPT !.ss = s1]
  IN  IF s1[qk]
      THEN [w1 EXCEPT !.quiz_view = "success"]
      ELSE IF pressed
           THEN IF index(options, choice) = correct_idx
                THEN LET w2 == [w1 EXCEPT !.ss = Put(s1, qk, TRUE),
                                          !.quiz_awards[key] = @ + 1]
                         w3 == award_xp(w2, xp_reward, QUIZ_REASON)
                     IN  [w3 EXCEPT !.balloons = @ + 1, !.rerun = TRUE,
                                    !.quiz_view = "question"]
                ELSE [w1 EXCEPT !.quiz_view = "error"]
           ELSE [w1 EXCEPT !.quiz_view = "question"]

\* pages/1_Regression.py: one run of the page script.  st.rerun() ends the
\* run at the quiz; otherwise the badge is awarded when R2 > 0.90.
regression_page(w, choice, pressed, r2_high) ==
  LET w1 == render_sidebar(initialize_session(w))
      q  == Quizzes[PAGE_QUIZ]
      w2 == quiz_render(w1, PAGE_QUIZ, q.xp_reward, q.options, q.correct_idx,
                        choice, pressed)
  IN  IF w2.rerun THEN w2
      ELSE IF r2_high
           THEN award_badge([w2 EXCEPT !.balloons = @ + 1], PAGE_BADGE)
           ELSE w2

\* --------------------------------------------------------------- actions
NoCall ==
  [op |-> "none", amount |-> 0, name |-> "", key |-> "", choice |-> "",
   pressed |-> FALSE, r2_high |-> FALSE]

Commit(w, c) ==
  /\ ~sleeping
  /\ sleeping' = w.sleeping
  /\ peer_sleeping' = peer_sleeping
  /\ session_state' = w.ss
  /\ toasts' = w.toasts
  /\ balloons' = w.balloons
  /\ raised' = w.raised
  /\ returned' = w.returned
  /\ rerun' = w.rerun
  /\ display' = w.display
  /\ quiz_view' = w.quiz_view
  /\ quiz_awards' = w.quiz_awards
  /\ badge_unlocked' = w.badge_unlocked
  /\ peer_state' = w.peer
  /\ call' = c

\* xp stays within the bounds of the model
InBounds(w) ==
  LET xp == Get(w.ss, "xp", DEFAULT_XP) IN 0 - MaxDebt <= xp /\ xp <= MaxXP

Init ==
  /\ session_state = << >>
  /\ toasts = << >>
  /\ balloons = 0
  /\ raised = "none"
  /\ returned = << >>
  /\ rerun = FALSE
  /\ display = << >>
  /\ quiz_view = "none"
  /\ call = NoCall
  /\ quiz_awards = [k \in QuizKeys |-> 0]
  /\ badge_unlocked = [n \in BadgeNames |-> 0]
  /\ peer_state = << >>
  /\ sleeping = FALSE
  /\ peer_sleeping = FALSE

\* The script thread as it stands in time.sleep(1): the outputs of the
\* running handler are kept
Asleep ==
  [World EXCEPT !.toasts = toasts, !.balloons = balloons, !.raised = raised,
                !.returned = returned, !.rerun = rerun, !.display = display,
                !.quiz_view = quiz_view, !.sleeping = sleeping]

Resume(w, op) ==
  /\ sleeping
  /\ sleeping' = w.sleeping
  /\ balloons' = w.balloons
  /\ call' = [call EXCEPT !.op = op]
  /\ UNCHANGED << session_state, toasts, raised, returned, rerun, display,
                  quiz_view, quiz_awards, badge_unlocked, peer_state,
                  peer_sleeping >>

\* the sleep of award_badge ends and st.balloons() is drawn
Wake == Resume(award_badge_wakes(Asleep), "wake")

\* a widget event of the session ends the sleeping script run
Stop == Resume(award_badge_stopped(Asleep), "stop")

\* the sleep of award_badge ends in the second session, whose balloons are
\* drawn in the other browser
PeerWake ==
  /\ peer_sleeping
  /\ peer_sleeping' = FALSE
  /\ UNCHANGED << session_state, toasts, balloons, raised, returned, rerun,
                  display, quiz_view, call, quiz_awards, badge_unlocked,
                  peer_state, sleeping >>

InitializeSession ==
  Commit(initialize_session(World), [NoCall EXCEPT !.op = "initialize_session"])

RenderSidebar ==
  Commit(render_sidebar(World), [NoCall EXCEPT !.op = "render"])

AwardXp(amount) ==
  LET w == award_xp(World, amount, DEFAULT_REASON)
  IN  /\ InBounds(w)
      /\ Commit(w, [NoCall EXCEPT !.op = "award_xp", !.amount = amount])

AwardBadge(badge_name) ==
  Commit(award_badge(World, badge_name),
         [NoCall EXCEPT !.op = "award_badge", !.name = badge_name])

QuizRender(key, choice, pressed) ==
  LET q == Quizzes[key]
      w == quiz_render(World, key, q.xp_reward, q.options, q.correct_idx,
                       choice, pressed)
  IN  /\ InBounds(w)
      /\ Commit(w, [NoCall EXCEPT !.op = "quiz_render", !.key = key,
                                  !.choice = choice, !.pressed = pressed])

RegressionPage(choice, pressed, r2_high) ==
  LET w == regression_page(World, choice, pressed, r2_high)
  IN  /\ InBounds(w)
      /\ Commit(w, [NoCall EXCEPT !.op = "regression_page", !.key = PAGE_QUIZ,
                                  !.choice = choice, !.pressed = pressed,
                                  !.r2_high = r2_high])

\* What the user did to a quiz before a script run: pressed Submit with some
\* option selected, or something else (the radio then keeps its selection,
\* which the run does not look at; the first option stands for it).
Interactions(key) ==
  { [choice |-> c, pressed |-> TRUE] : c \in Range(Quizzes[key].options) }
    \cup { [choice |-> Quizzes[key].options[1], pressed |-> FALSE] }

AwardXpAny == \E amount \in Amounts : AwardXp(amount)
AwardXpPositive == \E amount \in PositiveAmounts : AwardXp(amount)
AwardBadgeAny == \E badge_name \in BadgeNames : AwardBadge(badge_name)
QuizRenderAny ==
  \E key \in QuizKeys : \E u \in Interactions(key) :
    QuizRender(key, u.choice, u.pressed)
RegressionPageAny ==
  \E u \in Interactions(PAGE_QUIZ) : \E r2_high \in BOOLEAN :
    RegressionPage(u.choice, u.pressed, r2_high)

\* Every call the agents accept
Next ==
  \/ InitializeSession
  \/ RenderSidebar
  \/ AwardXpAny
  \/ AwardBadgeAny
  \/ Wake
  \/ Stop
  \/ QuizRenderAny
  \/ RegressionPageAny

Spec == Init /\ [][Next]_vars

\* The same session when award_xp is only called with positive amounts
NextPositive ==
  \/ InitializeSession
  \/ RenderSidebar
  \/ AwardXpPositive
  \/ AwardBadgeAny
  \/ Wake
  \/ Stop
  \/ QuizRenderAny
  \/ RegressionPageAny

SpecPositive == Init /\ [][NextPositive]_vars

\* A session of awards and quizzes in which one award can cross several
\* 100-XP boundaries
InLevelBounds(w) ==
  LET xp == Get(w.ss, "xp", DEFAULT_XP)
  IN  0 - MaxDebt <= xp /\ xp <= MaxLevelXP

AwardXpJump(amount) ==
  LET w == award_xp(World, amount, DEFAULT_REASON)
  IN  /\ InLevelBounds(w)
      /\ Commit(w, [NoCall EXCEPT !.op = "award_xp", !.amount = amount])

AwardXpJumpAny == \E amount \in JumpAmounts : AwardXpJump(amount)

NextLevels ==
  \/ RenderSidebar
  \/ AwardXpJumpAny
  \/ QuizRenderAny

SpecLevels == Init /\ [][NextLevels]_vars

\* A session that also renders the questions whose correct_idx is no
\* position of their options
EdgeInteractions(key) ==
  { [choice |-> c, pressed |-> TRUE] : c \in Range(EdgeQuizzes[key].options) }
    \cup { [choice |-> EdgeQuizzes[key].options[1], pressed |-> FALSE] }

QuizRenderEdge(key, choice, pressed) ==
  LET q == EdgeQuizzes[key]
      w == quiz_render(World, key, q.xp_reward, q.options, q.correct_idx,
                       choice, pressed)
  IN  /\ InBounds(w)
      /\ Commit(w, [NoCall EXCEPT !.op = "quiz_render", !.key = key,
                                  !.choice = choice, !.pressed = pressed])

QuizRenderEdgeAny ==
  \E key \in EdgeKeys : \E u \in EdgeInteractions(key) :
    QuizRenderEdge(key, u.choice, u.pressed)

NextEdge ==
  \/ RenderSidebar
  \/ QuizRenderAny
  \/ QuizRenderEdgeAny

SpecEdge == Init /\ [][NextEdge]_vars

\* Two browser sessions: the handlers also run in the second one, where
\* st.session_state is peer_state and the toasts go to the other browser
SessionAmounts == {50}

PeerWorld == [World EXCEPT !.ss = peer_state, !.peer = session_state]

CommitPeer(w) ==
  /\ ~peer_sleeping
  /\ peer_sleeping' = w.sleeping
  /\ peer_state' = w.ss
  /\ session_state' = w.peer
  /\ UNCHANGED << toasts, balloons, raised, returned, rerun, display,
                  quiz_view, call, quiz_awards, badge_unlocked, sleeping >>

PeerAwardXp(amount) ==
  LET w == award_xp(PeerWorld, amount, DEFAULT_REASON)
  IN  InBounds(w) /\ CommitPeer(w)

PeerAwardBadge(badge_name) == CommitPeer(award_badge(PeerWorld, badge_name))

PeerQuizRender(key, choice, pressed) ==
  LET q == Quizzes[key]
      w == quiz_render(PeerWorld, key, q.xp_reward, q.options, q.correct_idx,
                       choice, pressed)
  IN  InBounds(w) /\ CommitPeer(w)

PeerAwardXpAny == \E amount \in SessionAmounts : PeerAwardXp(amount)
PeerAwardBadgeAny == \E badge_name \in BadgeNames : PeerAwardBadge(badge_name)
PeerQuizRenderAny ==
  \E key \in QuizKeys : \E u \in Interactions(key) :
    PeerQuizRender(key, u.choice, u.pressed)

NextSessions ==
  \/ AwardBadgeAny
  \/ Wake
  \/ Stop
  \/ QuizRenderAny
  \/ PeerAwardXpAny
  \/ PeerAwardBadgeAny
  \/ PeerQuizRenderAny
  \/ PeerWake

SpecSessions == Init /\ [][NextSessions]_vars

\* A session in which two questions are rendered under one key
SharedInteractions ==
  { [choice |-> c, pressed |-> TRUE] : c \in Range(SharedQuiz.options) }
    \cup { [choice |-> SharedQuiz.options[1], pressed |-> FALSE] }

QuizRenderShared(choice, pressed) ==
  LET q == SharedQuiz
      w == quiz_render(World, SHARED_KEY, q.xp_reward, q.options,
                       q.correct_idx, choice, pressed)
  IN  /\ InBounds(w)
      /\ Commit(w, [NoCall EXCEPT !.op = "quiz_render", !.key = SHARED_KEY,
                                  !.choice = choice, !.pressed = pressed])

QuizRenderSharedAny ==
  \E u \in SharedInteractions : QuizRenderShared(u.choice, u.pressed)

NextKeys ==
  \/ RenderSidebar
  \/ AwardBadgeAny
  \/ Wake
  \/ Stop
  \/ QuizRenderAny
  \/ QuizRenderSharedAny

SpecKeys == Init /\ [][NextKeys]_vars

\* A session that also renders the question with a repeated option text
DuplicateInteractions ==
  { [choice |-> c, pressed |-> TRUE] : c \in Range(DuplicateQuiz.options) }
    \cup { [choice |-> DuplicateQuiz.options[1], pressed |-> FALSE] }

QuizRenderDuplicate(choice, pressed) ==
  LET q == DuplicateQuiz
      w == quiz_render(World, DUPLICATE_KEY, q.xp_reward, q.options,
                       q.correct_idx, choice, pressed)
  IN  /\ InBounds(w)
      /\ Commit(w, [NoCall EXCEPT !.op = "quiz_render",
                                  !.key = DUPLICATE_KEY,
                                  !.choice = choice, !.pressed = pressed])

QuizRenderDuplicateAny ==
  \E u \in DuplicateInteractions : QuizRenderDuplicate(u.choice, u.pressed)

NextDuplicates ==
  \/ RenderSidebar
  \/ AwardBadgeAny
  \/ Wake
  \/ Stop
  \/ QuizRenderAny
  \/ QuizRenderDuplicateAny

SpecDuplicates == Init /\ [][NextDuplicates]_vars

\* The same session when XP comes only from quizzes
NextQuiz ==
  \/ InitializeSession
  \/ RenderSidebar
  \/ AwardBadgeAny
  \/ Wake
  \/ Stop
  \/ QuizRenderAny
  \/ RegressionPageAny

SpecQuiz == Init /\ [][NextQuiz]_vars

\* ------------------------------------------------------ derived readings
xp_now == Get(session_state, "xp", DEFAULT_XP)
level_now == Get(session_state, "level", DEFAULT_LEVEL)
badges_now == Get(session_state, "badges", << >>)
answered(key) == Get(session_state, quiz_key(key), FALSE)

\* What the specification expects of the session
ExpectedLevel(xp) == 1 + (xp \div 100)
NoDuplicates(s) == \A i, j \in 1..Len(s) : s[i] = s[j] => i = j
Count(s, x) == Cardinality({ i \in 1..Len(s) : s[i] = x })
RendersQuiz(c, key) ==
  /\ c.op \in {"quiz_render", "regression_page"}
  /\ c.key = key
IsLevelUp(ts) == \E i \in 1..Len(ts) : ts[i].kind = "level_up"

\* ----------------------------------------------------------------------
\* C1: when award_xp is only called with positive amounts, from a fresh
\* session, xp never decreases from one call to the next and the stored
\* level is 1 + floor(xp / 100) after every call.
C1_LevelFollowsXp ==
  /\ [](level_now = ExpectedLevel(xp_now))
  /\ [][xp_now' >= xp_now]_vars

\* an award_xp call has just carried xp over 100 and stored level 2
C1_Witness ==
  /\ call.op = "award_xp"
  /\ call.amount > 0
  /\ xp_now = 105
  /\ Has(session_state, "level")
  /\ session_state["level"] = 2

\* ----------------------------------------------------------------------
\* C2: for one quiz key, QuizAgent.render calls award_xp at most once in a
\* session; once the answered flag is true, a further render or submission
\* draws the success result and awards no XP.
C2_RewardAtMostOnce ==
  /\ [](\A k \in QuizKeys : quiz_awards[k] <= 1)
  /\ [][\A k \in QuizKeys :
          (answered(k) /\ RendersQuiz(call', k))
            => /\ quiz_view' = "success"
               /\ quiz_awards' = quiz_awards
               /\ xp_now' = xp_now
               /\ level_now' = level_now
               /\ ~IsLevelUp(toasts')
               /\ \A i \in 1..Len(toasts') : toasts'[i].kind # "xp"]_vars

\* the correct option was submitted again to an answered question
C2_Witness ==
  /\ call.op = "quiz_render"
  /\ call.key = "q1"
  /\ call.pressed
  /\ call.choice = Quizzes["q1"].options[Quizzes["q1"].correct_idx + 1]
  /\ quiz_view = "success"
  /\ answered("q1")
  /\ quiz_awards["q1"] = 1
  /\ xp_now = PAGE_XP_REWARD

\* ----------------------------------------------------------------------
\* C3: the badges collection holds each name at most once, and award_badge
\* with a name that is already present leaves the session as it was.
C3_BadgesIdempotent ==
  /\ [](NoDuplicates(badges_now))
  /\ [][(call'.op = "award_badge" /\ call'.name \in Range(badges_now))
          => session_state' = session_state]_vars

\* award_badge("Regression Master") was called with the badge already held
C3_Witness ==
  /\ call.op = "award_badge"
  /\ call.name = "Regression Master"
  /\ toasts = << >>
  /\ badges_now = << "Regression Master" >>
  /\ Len(badges_now) = 1

\* ----------------------------------------------------------------------
\* C4: the badge-unlocked notification of a name is emitted exactly once,
\* by the call that inserts the name, and never while the name is present;
\* this includes the Regression page awarding its badge on every run with
\* R2 > 0.90.
C4_BadgeNotifiedOnce ==
  /\ [](\A n \in BadgeNames :
          badge_unlocked[n] = IF n \in Range(badges_now) THEN 1 ELSE 0)
  /\ [][\A n \in BadgeNames :
          /\ ~sleeping
               => Count(toasts', BadgeToast(n)) =
                    IF n \notin Range(badges_now) /\ n \in Range(badges_now')
                    THEN 1 ELSE 0
          /\ sleeping => (toasts' = toasts /\ badges_now' = badges_now)
          /\ n \in Range(badges_now) => n \in Range(badges_now')]_vars

\* a run of the Regression page with R2 > 0.90 that already held the badge
C4_Witness ==
  /\ call.op = "regression_page"
  /\ call.r2_high
  /\ ~rerun
  /\ PAGE_BADGE \in Range(badges_now)
  /\ badge_unlocked[PAGE_BADGE] = 1
  /\ toasts = << >>

\* ----------------------------------------------------------------------
\* C5: award_xp with a non-positive amount fails with InvalidArgument and
\* leaves xp and level as they were before the call.
C5_NonPositiveAmountRejected ==
  [][(call'.op = "award_xp" /\ call'.amount <= 0)
       => /\ raised' = "InvalidArgument"
          /\ xp_now' = xp_now
          /\ level_now' = level_now]_vars

\* ----------------------------------------------------------------------
\* C6: award_badge with an empty name fails with InvalidArgument, and the
\* empty string is never a member of the session's badges.
C6_EmptyBadgeRejected ==
  /\ []("" \notin Range(badges_now))
  /\ [][(call'.op = "award_badge" /\ call'.name = "")
          => /\ raised' = "InvalidArgument"
             /\ badges_now' = badges_now]_vars

\* ----------------------------------------------------------------------
\* C7: when XP comes only from quizzes, xp is the sum of the rewards of the
\* quiz keys whose answered flag is true; a flag that turns true comes with
\* exactly one award_xp call of that quiz's reward.
RECURSIVE SumRewards(_)
SumRewards(keys) ==
  IF keys = {} THEN 0
  ELSE LET k == CHOOSE x \in keys : TRUE
       IN  Quizzes[k].xp_reward + SumRewards(keys \ {k})

AnsweredKeys == { k \in QuizKeys : answered(k) }

C7_XpIsSumOfAnsweredRewards ==
  /\ [](/\ xp_now = SumRewards(AnsweredKeys)
        /\ \A k \in QuizKeys :
             quiz_awards[k] = IF answered(k) THEN 1 ELSE 0)
  /\ [][\A k \in QuizKeys :
          (~answered(k) /\ answered(k)')
            => /\ quiz_awards'[k] = quiz_awards[k] + 1
               /\ xp_now' = xp_now + Quizzes[k].xp_reward]_vars

\* both questions are answered and both rewards are in xp
C7_Witness ==
  /\ answered("q1")
  /\ answered("q2")
  /\ xp_now = PAGE_XP_REWARD + DEFAULT_XP_REWARD
  /\ quiz_awards = [k \in QuizKeys |-> 1]

\* ----------------------------------------------------------------------
\* C8: the answered flag of a quiz key starts false, and once it is true no
\* later render, submission or award makes it false or removes it.
C8_AnsweredIsTerminal ==
  /\ \A k \in QuizKeys : ~answered(k)
  /\ [][\A k \in QuizKeys :
          /\ answered(k) => answered(k)'
          /\ Has(session_state, quiz_key(k))
               => Has(session_state', quiz_key(k))
          /\ (~Has(session_state, quiz_key(k)) /\ ~RendersQuiz(call', k))
               => ~Has(session_state', quiz_key(k))]_vars

\* an award_xp call made after the question q2 was answered
C8_Witness ==
  /\ call.op = "award_xp"
  /\ Has(session_state, quiz_key("q2"))
  /\ session_state[quiz_key("q2")] = TRUE
  /\ ~Has(session_state, quiz_key("q1"))

\* ----------------------------------------------------------------------
\* C9: a submission to QuizAgent.render whose selected index differs from
\* correct_idx leaves the quiz Unanswered and xp and level unchanged, and
\* QuizAgent.render itself leaves badges unchanged (in a page run only the
\* Master Challenge block that follows may add the page's badge); a
\* submission with the correct index to an Unanswered quiz, whatever came
\* before, moves it to Answered and awards the reward once.
SelectedIdx(c) == index(Quizzes[c.key].options, c.choice)
XpToasts(ts) == { i \in 1..Len(ts) : ts[i].kind \in {"xp", "level_up"} }

C9_WrongThenCorrect ==
  [][\A k \in QuizKeys :
       (RendersQuiz(call', k) /\ call'.pressed /\ ~answered(k))
         => IF SelectedIdx(call') # Quizzes[k].correct_idx
            THEN /\ ~answered(k)'
                 /\ quiz_view' = "error"
                 /\ xp_now' = xp_now
                 /\ level_now' = level_now
                 /\ quiz_awards' = quiz_awards
                 /\ XpToasts(toasts') = {}
                 /\ ~rerun'
                 /\ call'.op = "quiz_render"
                      => (badges_now' = badges_now /\ toasts' = << >>)
                 /\ Range(badges_now') \subseteq Range(badges_now) \cup {PAGE_BADGE}
            ELSE /\ answered(k)'
                 /\ quiz_awards'[k] = 1
                 /\ xp_now' = xp_now + Quizzes[k].xp_reward
                 /\ Cardinality(XpToasts(toasts')) = 1
                 /\ badges_now' = badges_now
                 /\ rerun']_vars

\* a wrong option of q1 was submitted after q2 had been answered
C9_Witness ==
  /\ call.op = "quiz_render"
  /\ call.key = "q1"
  /\ call.pressed
  /\ call.choice = "The color of the rod"
  /\ quiz_view = "error"
  /\ Has(session_state, quiz_key("q1"))
  /\ ~answered("q1")
  /\ xp_now = DEFAULT_XP_REWARD

\* ----------------------------------------------------------------------
\* C10: from a state with level = 1 + floor(xp/100), award_xp with a
\* positive amount a reports a level-up exactly when floor((xp + a)/100) >
\* floor(xp/100); from xp = 90, level = 1, awarding 15 gives xp = 105, level
\* 2 with a level-up, and 5 more gives xp = 110, level 2 with no level-up.
C10_LevelUpAtBoundary ==
  [][(call'.op = "award_xp" /\ call'.amount > 0
        /\ level_now = ExpectedLevel(xp_now))
       => /\ xp_now' = xp_now + call'.amount
          /\ level_now' = ExpectedLevel(xp_now')
          /\ IsLevelUp(toasts')
               <=> ((xp_now + call'.amount) \div 100 > xp_now \div 100)
          /\ (xp_now = 90 /\ call'.amount = 15)
               => (xp_now' = 105 /\ level_now' = 2 /\ IsLevelUp(toasts'))
          /\ (xp_now = 105 /\ call'.amount = 5)
               => (xp_now' = 110 /\ level_now' = 2 /\ ~IsLevelUp(toasts'))
     ]_vars

\* award_xp(5) has just taken xp from 105 to 110 at level 2
C10_Witness ==
  /\ call.op = "award_xp"
  /\ call.amount = 5
  /\ xp_now = 110
  /\ level_now = 2
  /\ toasts = << XpToast(5, DEFAULT_REASON) >>

\* ----------------------------------------------------------------------
\* C11: every award_xp call, direct or made by a correct quiz submission,
\* emits exactly one notification: the level-up notification carrying the
\* new level when the level increased, also across several 100-XP
\* boundaries, otherwise the XP notification carrying amount and reason.
AwardNotification(amount, reason) ==
  IF level_now' > level_now
  THEN /\ toasts' = << LevelUpToast(level_now') >>
       /\ level_now' = ExpectedLevel(xp_now')
  ELSE toasts' = << XpToast(amount, reason) >>

C11_OneNotificationPerAward ==
  [][/\ call'.op = "award_xp"
          => AwardNotification(call'.amount, DEFAULT_REASON)
     /\ (call'.op = "quiz_render" /\ rerun')
          => AwardNotification(Quizzes[call'.key].xp_reward, QUIZ_REASON)
    ]_vars

\* award_xp(200) has just taken a session from level 1 to level 3
C11_Witness ==
  /\ call.op = "award_xp"
  /\ call.amount = 200
  /\ xp_now = 205
  /\ level_now = 3
  /\ toasts = << LevelUpToast(3) >>

\* ----------------------------------------------------------------------
\* C12: award_xp returns a record holding the amount awarded, the new total
\* xp, the level before the call, the level after it and leveled_up =
\* (new_level > old_level).
C12_AwardXpReturnsResult ==
  [][call'.op = "award_xp"
       => returned' = << [xp_awarded |-> call'.amount,
                          total_xp |-> xp_now',
                          old_level |-> level_now,
                          new_level |-> level_now',
                          leveled_up |-> level_now' > level_now] >>]_vars

\* ----------------------------------------------------------------------
\* C13: xp is a non-negative integer in every reachable state of a session,
\* for every sequence of award_xp calls and quiz submissions the code
\* accepts.
C13_XpNonNegative == xp_now \in Nat

\* ----------------------------------------------------------------------
\* C14: GamificationAgent.render changes nothing: it leaves the session
\* dictionary as it was (xp, level, badges, every quiz flag; no xp or level
\* key is created), draws the fraction (xp mod 100)/100, and a render that
\* follows a render draws the same sidebar.
C14_RenderIsPure ==
  [][call'.op = "render"
       => /\ session_state' = session_state
          /\ quiz_awards' = quiz_awards
          /\ badge_unlocked' = badge_unlocked
          /\ toasts' = << >>
          /\ Len(display') = 1
          /\ display'[1].progress_num = xp_now % 100
          /\ display'[1].progress_den = 100
          /\ display'[1].caption_max = level_now * 100
          /\ call.op = "render" => display' = display]_vars

\* the sidebar was drawn for xp = 55 in a session that has no level key
C14_Witness ==
  /\ call.op = "render"
  /\ xp_now = 55
  /\ ~Has(session_state, "level")
  /\ Len(display) = 1
  /\ display[1].progress_num = 55

\* ----------------------------------------------------------------------
\* C15: in every state reached by positive-amount awards, xp mod 100 lies
\* in 0..99 and level * 100 - xp is a non-negative integer, so a sidebar
\* that is drawn never shows xp above level * 100.
C15_ProgressInRange ==
  /\ xp_now % 100 \in 0..99
  /\ level_now * 100 - xp_now \in Nat
  /\ display # << >>
       => /\ display[1].progress_num \in 0..99
          /\ display[1].caption_xp <= display[1].caption_max

\* the sidebar was drawn at the boundary xp = 100, level 2
C15_Witness ==
  /\ display # << >>
  /\ display[1].caption_xp = 100
  /\ display[1].caption_max = 200
  /\ display[1].progress_num = 0

\* ----------------------------------------------------------------------
\* C16: before any award of a session, whether or not initialize_session
\* has run, the progress the tracker reads and draws is xp = 0, level = 1
\* and no badges.
NoAwardYet ==
  /\ ~Has(session_state, "xp")
  /\ \A n \in BadgeNames : badge_unlocked[n] = 0

C16_FreshProgress ==
  NoAwardYet
    => /\ xp_now = 0
       /\ level_now = 1
       /\ badges_now = << >>
       /\ display # << >>
            => display = << [level |-> 1, progress_num |-> 0,
                             progress_den |-> 100, caption_xp |-> 0,
                             caption_max |-> 100, badges |-> << >>] >>

\* the sidebar drawn after initialize_session and before any award
C16_Witness ==
  /\ NoAwardYet
  /\ Has(session_state, "user_xp")
  /\ Has(session_state, "badges")
  /\ call.op = "render"
  /\ display # << >>
  /\ display[1].level = 1

\* ----------------------------------------------------------------------
\* C17: xp, level and badges change only inside award_xp and award_badge: a
\* page re-run with no Submit press, a sidebar render, a repeated
\* initialize_session, a wrong quiz answer and a render of an answered quiz
\* all leave the three values unchanged.
Progress == << xp_now, level_now, badges_now >>

WrongAnswer(c) ==
  /\ c.op \in {"quiz_render", "regression_page"}
  /\ c.pressed
  /\ SelectedIdx(c) # Quizzes[c.key].correct_idx

C17_OnlyAwardsChangeProgress ==
  [][(\/ call'.op \in {"render", "initialize_session"}
      \/ call'.op = "regression_page" /\ ~call'.pressed
      \/ call'.op = "quiz_render" /\ WrongAnswer(call')
      \/ call'.op = "quiz_render" /\ answered(call'.key))
       => Progress' = Progress]_vars

\* C17 as amended: the same, except that a run of the Regression page
\* (with no Submit press or with a wrong answer) calls award_badge when R2 >
\* 0.90, which adds the page's badge if it is not yet held; xp and level are
\* unchanged by such a run, and badges are unchanged when R2 <= 0.90.
AfterPageBadge ==
  IF PAGE_BADGE \in Range(badges_now)
  THEN badges_now
  ELSE Append(badges_now, PAGE_BADGE)

C17_OnlyAwardsChangeProgressAmended ==
  [][/\ (\/ call'.op \in {"render", "initialize_session"}
         \/ call'.op = "quiz_render" /\ ~call'.pressed
         \/ call'.op = "quiz_render" /\ WrongAnswer(call')
         \/ call'.op = "quiz_render" /\ answered(call'.key))
          => Progress' = Progress
     /\ (call'.op = "regression_page"
           /\ (~call'.pressed \/ WrongAnswer(call') \/ answered(call'.key)))
          => /\ xp_now' = xp_now
             /\ level_now' = level_now
             /\ badges_now' = IF call'.r2_high THEN AfterPageBadge
                              ELSE badges_now
     /\ << xp_now, level_now >>' # << xp_now, level_now >>
          => \/ call'.op = "award_xp"
             \/ /\ call'.op \in {"quiz_render", "regression_page"}
                /\ rerun'
     /\ badges_now' # badges_now
          => \/ call'.op = "award_badge"
             \/ call'.op = "regression_page" /\ call'.r2_high /\ ~rerun'
    ]_vars

\* initialize_session ran again in a session that holds XP and a badge
C17_Witness ==
  /\ call.op = "initialize_session"
  /\ Has(session_state, "user_xp")
  /\ xp_now = PAGE_XP_REWARD
  /\ badges_now = << PAGE_BADGE >>
  /\ toasts = << >>

\* ----------------------------------------------------------------------
\* C20: the quiz comparison never raises: for any correct_idx, also one
\* that is no position of the options list, a submission whose selected
\* index is not correct_idx is treated as incorrect: the quiz stays
\* Unanswered and no XP is awarded.
QuizOf(key) == IF key \in EdgeKeys THEN EdgeQuizzes[key] ELSE Quizzes[key]

C20_ComparisonNeverRaises ==
  [][\A k \in QuizKeys \cup EdgeKeys :
       RendersQuiz(call', k)
         => /\ raised' = "none"
            /\ (call'.pressed /\ ~answered(k)
                  /\ index(QuizOf(k).options, call'.choice)
                       # QuizOf(k).correct_idx)
                 => /\ ~answered(k)'
                    /\ quiz_view' = "error"
                    /\ xp_now' = xp_now
                    /\ toasts' = << >>
            /\ k \in EdgeKeys
                 => (~answered(k)' /\ xp_now' = xp_now)]_vars

\* the last option was submitted to the question whose correct_idx is -1
C20_Witness ==
  /\ call.op = "quiz_render"
  /\ call.key = "q4"
  /\ call.pressed
  /\ call.choice = "No"
  /\ raised = "none"
  /\ quiz_view = "error"
  /\ ~answered("q4")

\* ----------------------------------------------------------------------
\* C19: sessions are isolated: a handler running in one session leaves the
\* xp, level, badges and quiz flags of the other session unchanged, and
\* what a session stores and shows after a handler is what the handler
\* gives when the other session never did anything.
Alone(c) ==
  LET w == [World EXCEPT !.peer = << >>]
      a == [Asleep EXCEPT !.peer = << >>]
  IN  CASE c.op = "award_badge" -> award_badge(w, c.name)
        [] c.op = "quiz_render" ->
             quiz_render(w, c.key, Quizzes[c.key].xp_reward,
                         Quizzes[c.key].options, Quizzes[c.key].correct_idx,
                         c.choice, c.pressed)
        [] c.op = "wake" -> award_badge_wakes(a)
        [] c.op = "stop" -> award_badge_stopped(a)
        [] OTHER -> w

Mine == << session_state, toasts, balloons, raised, returned, rerun, display,
           quiz_view, call, sleeping >>
Theirs == << peer_state, peer_sleeping >>

C19_SessionsIsolated ==
  [][/\ Theirs' # Theirs => Mine' = Mine
     /\ Mine' # Mine
          => /\ Theirs' = Theirs
             /\ session_state' = Alone(call').ss
             /\ toasts' = Alone(call').toasts
             /\ balloons' = Alone(call').balloons
             /\ raised' = Alone(call').raised
             /\ quiz_view' = Alone(call').quiz_view
             /\ sleeping' = Alone(call').sleeping]_vars

\* one session answered q2 while the award_badge call of the other one,
\* which had earned 50 XP, was asleep between its toast and its balloons
C19_Witness ==
  /\ call.op = "quiz_render"
  /\ call.key = "q2"
  /\ answered("q2")
  /\ xp_now = DEFAULT_XP_REWARD
  /\ badges_now = << >>
  /\ Get(peer_state, "xp", DEFAULT_XP) = 50
  /\ Get(peer_state, "badges", << >>) = << PAGE_BADGE >>
  /\ ~Has(peer_state, quiz_key("q2"))
  /\ peer_sleeping

\* ----------------------------------------------------------------------
\* C21: quiz state is kept per question key: the flag of a key is created
\* by the first render of that key, false unless that render is a correct
\* submission, and is never removed; a render of one key leaves the flags
\* of the other keys as they were; every key is rewarded at most once, also
\* when two questions are rendered under it, and distinct keys are rewarded
\* independently.
FlagOf(k) == "quiz_" \o k \o "_answered"

C21_FlagPerKey ==
  /\ [](\A k \in QuizKeys :
          /\ quiz_awards[k] <= 1
          /\ quiz_awards[k] = 1 => Get(session_state, FlagOf(k), FALSE))
  /\ [][\A k \in QuizKeys :
          /\ Has(session_state, FlagOf(k)) => Has(session_state', FlagOf(k))
          /\ RendersQuiz(call', k)
               => /\ Has(session_state', FlagOf(k))
                  /\ \A j \in QuizKeys \ {k} :
                       /\ Has(session_state', FlagOf(j))
                            = Has(session_state, FlagOf(j))
                       /\ Get(session_state', FlagOf(j), FALSE)
                            = Get(session_state, FlagOf(j), FALSE)
                       /\ quiz_awards'[j] = quiz_awards[j]
                  /\ (~Has(session_state, FlagOf(k))
                        /\ quiz_awards'[k] = quiz_awards[k])
                       => session_state'[FlagOf(k)] = FALSE]_vars

\* both keys were rewarded, q2 through its second question, and a render
\* of the first question of q2 shows the answered form
C21_Witness ==
  /\ call.op = "quiz_render"
  /\ call.key = SHARED_KEY
  /\ call.choice = "Yes"
  /\ quiz_view = "success"
  /\ quiz_awards = [k \in QuizKeys |-> 1]
  /\ xp_now = PAGE_XP_REWARD + SharedQuiz.xp_reward
  /\ session_state[FlagOf("q1")] = TRUE
  /\ session_state[FlagOf("q2")] = TRUE

\* ----------------------------------------------------------------------
\* C22: the stored level never decreases: for award_xp calls with any
\* integer amounts the level is written only when the recomputed level is
\* greater than the old one, so level >= 1 + floor(xp/100) in every
\* reachable state, also after xp has gone down.
C22_LevelNeverDecreases ==
  /\ [](level_now >= ExpectedLevel(xp_now))
  /\ [][/\ level_now' >= level_now
        /\ level_now' # level_now => level_now' = ExpectedLevel(xp_now')
        /\ Has(session_state, "level") => Has(session_state', "level")]_vars

\* a negative award took xp below the threshold of the stored level
C22_Witness ==
  /\ call.op = "award_xp"
  /\ call.amount < 0
  /\ Has(session_state, "level")
  /\ level_now = 3
  /\ xp_now = 195
  /\ ExpectedLevel(xp_now) = 2

\* ----------------------------------------------------------------------
\* C23: the keys user_xp and user_level, which initialize_session creates,
\* are touched by no other operation: once present they hold 0 and 1 for
\* ever, only initialize_session creates them, and the progress that awards
\* change and the sidebar draws is the one under the keys xp and level.
UsesPageSetup(c) == c.op \in {"initialize_session", "regression_page"}

C23_UserKeysUntouched ==
  /\ [](/\ Has(session_state, "user_xp") => session_state["user_xp"] = 0
        /\ Has(session_state, "user_level")
             => session_state["user_level"] = 1
        /\ Has(session_state, "user_xp") = Has(session_state, "user_level"))
  /\ [][/\ call'.op = "render"
             => /\ display'[1].caption_xp = xp_now'
                /\ display'[1].level = level_now'
        /\ call'.op = "regression_page"
             => /\ display'[1].caption_xp = xp_now
                /\ display'[1].level = level_now]_vars
  /\ [][/\ Has(session_state, "user_xp") => Has(session_state', "user_xp")
        /\ ~UsesPageSetup(call')
             => Has(session_state', "user_xp") = Has(session_state, "user_xp")
        /\ call'.op = "award_xp" => xp_now' = xp_now + call'.amount]_vars

\* the user keys still hold 0 and 1 when the sidebar draws 100 XP, level 2
C23_Witness ==
  /\ call.op = "render"
  /\ Has(session_state, "user_xp")
  /\ session_state["user_xp"] = 0
  /\ session_state["user_level"] = 1
  /\ xp_now = 100
  /\ level_now = 2
  /\ display[1].caption_xp = 100

\* ----------------------------------------------------------------------
\* C24: a correct submission sets the answered flag, applies award_xp and
\* then requests a rerun, all three in that script run, whose sidebar was
\* drawn before the award; the page run that follows draws the sidebar
\* with the reward included and the quiz in its answered form.
CorrectSubmission(c, k) ==
  /\ RendersQuiz(c, k)
  /\ c.pressed
  /\ ~answered(k)
  /\ index(Quizzes[k].options, c.choice) = Quizzes[k].correct_idx

C24_SubmitThenRerun ==
  [][/\ \A k \in QuizKeys :
          CorrectSubmission(call', k)
            => /\ answered(k)'
               /\ xp_now' = xp_now + Quizzes[k].xp_reward
               /\ rerun'
               /\ quiz_view' = "question"
               /\ call'.op = "regression_page"
                    => display' = render_sidebar(World).display
     /\ rerun' => \E k \in QuizKeys : CorrectSubmission(call', k)
     /\ (rerun /\ call.op = "regression_page"
           /\ call'.op = "regression_page")
          => /\ Len(display') = 1
             /\ display'[1].caption_xp = xp_now
             /\ display'[1].caption_xp
                  = display[1].caption_xp + PAGE_XP_REWARD
             /\ quiz_view' = "success"
             /\ xp_now' = xp_now
             /\ ~rerun']_vars

\* the page run after the correct submission of q1: the reward is in the
\* sidebar and the quiz shows its answered form
C24_Witness ==
  /\ call.op = "regression_page"
  /\ answered(PAGE_QUIZ)
  /\ quiz_awards[PAGE_QUIZ] = 1
  /\ ~rerun
  /\ quiz_view = "success"
  /\ xp_now = PAGE_XP_REWARD
  /\ display = << [level |-> 1, progress_num |-> 50, progress_den |-> 100,
                   caption_xp |-> 50, caption_max |-> 100,
                   badges |-> << >>] >>

\* ----------------------------------------------------------------------
\* C25: award_xp leaves badges alone and award_badge leaves xp and level
\* alone, and from every reachable state an XP award and a badge award
\* give the same xp, level and set of badges in either order.
Outcome(w) ==
  << Get(w.ss, "xp", DEFAULT_XP), Get(w.ss, "level", DEFAULT_LEVEL),
     Range(Get(w.ss, "badges", << >>)) >>

C25_AwardsCommute ==
  /\ [](\A a \in Amounts : \A n \in BadgeNames :
          Outcome(award_badge(award_xp(World, a, DEFAULT_REASON), n))
            = Outcome(award_xp(award_badge(World, n), a, DEFAULT_REASON)))
  /\ [][/\ call'.op = "award_xp"
             => /\ badges_now' = badges_now
                /\ Has(session_state', "badges")
                     = Has(session_state, "badges")
        /\ call'.op = "award_badge"
             => /\ xp_now' = xp_now
                /\ level_now' = level_now
                /\ Has(session_state', "xp") = Has(session_state, "xp")
                /\ Has(session_state', "level")
                     = Has(session_state, "level")]_vars

\* a badge was unlocked in a session that is at 100 XP and level 2
C25_Witness ==
  /\ call.op = "award_badge"
  /\ call.name = PAGE_BADGE
  /\ Len(toasts) = 1
  /\ badges_now = << PAGE_BADGE >>
  /\ xp_now = 100
  /\ level_now = 2

\* ----------------------------------------------------------------------
\* C26: the GamificationAgent of QuizAgent and the one of OrchestratorAgent
\* work on the same session progress: the sidebar the orchestrator draws
\* shows the xp, level and badges of the session, in which the rewards the
\* quiz's agent awarded are included.
DrawnProgress(d) == << d.caption_xp, d.level, d.badges >>

C26_AgentsShareProgress ==
  /\ [](xp_now = SumRewards(AnsweredKeys))
  /\ [][/\ call'.op \in {"render", "regression_page"}
             => /\ Len(display') = 1
                /\ DrawnProgress(display'[1])
                     = << xp_now, level_now, badges_now >>
                /\ display'[1].caption_xp = SumRewards(AnsweredKeys)
        /\ call'.op = "render"
             => /\ session_state' = session_state
                /\ display'[1].caption_xp = SumRewards(AnsweredKeys)']_vars

\* the orchestrator's sidebar shows the 75 XP of the two quiz rewards
C26_Witness ==
  /\ call.op = "render"
  /\ quiz_awards = [k \in QuizKeys |-> 1]
  /\ ~Has(session_state, "user_xp")
  /\ display # << >>
  /\ display[1].caption_xp = PAGE_XP_REWARD + DEFAULT_XP_REWARD
  /\ display[1].progress_num = 75

\* ----------------------------------------------------------------------
\* C27: the submitted index is the first position of the chosen text in
\* options: a question becomes answered only by a submission whose text
\* first occurs at correct_idx, so a question whose correct text occurs
\* earlier is never answered, and a question with distinct options and a
\* valid correct_idx becomes answered when options[correct_idx] is
\* submitted.
QuestionOf(k) == IF k = DUPLICATE_KEY THEN DuplicateQuiz ELSE Quizzes[k]

FirstPosition(options, text) ==
  CHOOSE i \in 0..(Len(options) - 1) :
    /\ options[i + 1] = text
    /\ \A j \in 0..(i - 1) : options[j + 1] # text

C27_FirstOccurrenceDecides ==
  /\ [](~answered(DUPLICATE_KEY))
  /\ [][\A k \in QuizKeys \cup {DUPLICATE_KEY} :
          LET q == QuestionOf(k)
              submitted == /\ RendersQuiz(call', k)
                           /\ call'.pressed
                           /\ ~answered(k)
          IN  /\ (~answered(k) /\ answered(k)')
                   => /\ submitted
                      /\ FirstPosition(q.options, call'.choice)
                           = q.correct_idx
              /\ (/\ submitted
                  /\ NoDuplicates(q.options)
                  /\ q.correct_idx \in 0..(Len(q.options) - 1)
                  /\ call'.choice = q.options[q.correct_idx + 1])
                   => answered(k)'
              /\ (submitted
                    /\ FirstPosition(q.options, call'.choice)
                         # q.correct_idx)
                   => (~answered(k)' /\ quiz_view' = "error")]_vars

\* q1 was answered by its options[correct_idx], and submitting the text of
\* options[correct_idx] of the question with the repeated text is an error
C27_Witness ==
  /\ call.op = "quiz_render"
  /\ call.key = DUPLICATE_KEY
  /\ call.pressed
  /\ call.choice = DuplicateQuiz.options[DuplicateQuiz.correct_idx + 1]
  /\ quiz_view = "error"
  /\ ~answered(DUPLICATE_KEY)
  /\ answered("q1")
  /\ xp_now = PAGE_XP_REWARD

\* ----------------------------------------------------------------------
\* C28: badges are kept in the order of their first award: the list has no
\* name twice, a step either leaves it as it is or puts the name it awards
\* for the first time at its end, and the sidebar lists the badges in the
\* order of the list.
AwardedName(c) ==
  IF c.op = "regression_page" THEN PAGE_BADGE ELSE c.name

C28_BadgesInAwardOrder ==
  /\ [](NoDuplicates(badges_now))
  /\ [][call'.op = "render" => display'[1].badges = badges_now']_vars
  /\ [][\/ badges_now' = badges_now
        \/ /\ call'.op \in {"award_badge", "regression_page"}
           /\ AwardedName(call') \notin Range(badges_now)
           /\ badges_now' = Append(badges_now, AwardedName(call'))]_vars

\* the sidebar lists two badges, the one that was awarded first on top
C28_Witness ==
  /\ call.op = "render"
  /\ badge_unlocked = [n \in BadgeNames |-> 1]
  /\ badges_now = << PAGE_BADGE, "" >>
  /\ display # << >>
  /\ display[1].badges = << PAGE_BADGE, "" >>

====
